---------------------------- MODULE Spec2Model ----------------------------
(***************************************************************************)
(* A model of vlkhvnn/InMem-Cache: the sharded LRU cache of package cache  *)
(* (Shard, ShardedCache), the plain map Cache, and the TCP server of       *)
(* cmd/server (acceptor, connection channel, worker pool,                  *)
(* handleConnection).                                                      *)
(*                                                                         *)
(* Strings are sequences of bytes, so that hashing (FNV-1a), splitting,    *)
(* upper-casing and joining are computed as the code computes them.        *)
(* Each of Shard.set, get and delete holds the shard's mutex from its      *)
(* first statement to its return, and Cache.Set, Get and Delete hold the   *)
(* cache's lock likewise, so each is one step.  SpecConcurrent drops that  *)
(* reduction for the shards: there each call locks, reads, writes and      *)
(* unlocks in steps of its own, interleaved with the other callers'.       *)
(* Logging, the Prometheus metrics and the TLS setup of the server are     *)
(* left out.                                                               *)
(***************************************************************************)
EXTENDS Integers, Sequences, FiniteSets, TLC

VARIABLES
    sc,            \* the ShardedCache under test: shards, shardCount, shardCapacity
    lastCall,      \* the last call made on sc and what it returned
    written,       \* history: key -> value of its latest set, while not deleted/evicted
    recency,       \* history: the stored keys, most recently accessed first
    callers,       \* the goroutines calling sc concurrently: where each is in its call
    flags,         \* the server's command-line flags
    env,           \* what the clients of the server do: how many connect, what they send
    accepted,      \* the number of connections ln.Accept has returned (they are 1..accepted)
    acceptor,      \* main's accept loop: where it is, and its conn
    connChan,      \* the buffered channel of connections
    workers,       \* each worker goroutine: where it is, its conn, its authenticated
    closes,        \* per connection, the number of conn.Close() calls
    cacheInstance, \* the server's Cache: its data map
    lastEvent      \* the last thing a handler did to its connection: a reply or its exit

libVars == <<sc, lastCall, written, recency, callers>>

serverVars == <<flags, env, accepted, acceptor, connChan, workers, closes,
                cacheInstance, lastEvent>>

vars == <<sc, lastCall, written, recency, callers, flags, env, accepted, acceptor, connChan,
          workers, closes, cacheInstance, lastEvent>>

-----------------------------------------------------------------------------
(* Bounds of the model *)

\* the keys "a", "b", ... used by the callers of the cache
NumKeys == 3

\* the option lists handed to NewShardedCache have at most this many options
MaxOpts == 2

\* option arguments range over 0..MaxOptArg (0 is the invalid one)
MaxOptArg == 2

\* the -workers flag ranges over -1..MaxWorkers
MaxWorkers == 2

\* the number of clients that connect to the server
MaxConns == 4

\* under load, the clients number the queue's capacity plus the worker plus this many
ExtraConns == 1

-----------------------------------------------------------------------------
(* Strings as byte sequences *)

Keys == { <<96 + i>> : i \in 1..NumKeys }

\* the values "1" and "2": the cache stores and returns values without reading them
Values == { <<49>>, <<50>> }

EmptyString == << >>

-----------------------------------------------------------------------------
(* hash/fnv New32a, Write, Sum32: 32-bit FNV-1a, kept as two 16-bit limbs *)

RECURSIVE Xor8(_, _, _)
Xor8(a, b, n) ==
    IF n = 0 THEN 0
    ELSE (((a % 2) + (b % 2)) % 2) + 2 * Xor8(a \div 2, b \div 2, n - 1)

\* offset32 = 2166136261 = 0x811C9DC5
FnvOffsetHi == 33052
FnvOffsetLo == 40389

\* prime32 = 16777619 = 2^24 + 403
FnvPrimeLow == 403

\* hash ^= byte ; hash *= prime32 (mod 2^32)
FnvStep(h, byte) ==
    LET lo1  == (h.lo \div 256) * 256 + Xor8(h.lo % 256, byte, 8)
        plo  == lo1 * FnvPrimeLow
        phi  == h.hi * FnvPrimeLow + (plo \div 65536) + (lo1 % 256) * 256
    IN  [hi |-> phi % 65536, lo |-> plo % 65536]

RECURSIVE FnvWrite(_, _)
FnvWrite(h, bytes) ==
    IF bytes = << >> THEN h
    ELSE FnvWrite(FnvStep(h, Head(bytes)), Tail(bytes))

Fnv32a(bytes) == FnvWrite([hi |-> FnvOffsetHi, lo |-> FnvOffsetLo], bytes)

\* the hashes of the callers' keys, computed once
KeyHashes == [k \in Keys |-> Fnv32a(k)]

Sum32a(bytes) == IF bytes \in Keys THEN KeyHashes[bytes] ELSE Fnv32a(bytes)

\* hash.Sum32() % uint32(n), for n > 0
HashMod(h, n) == ((h.hi % n) * (65536 % n) + (h.lo % n)) % n

-----------------------------------------------------------------------------
(* container/list, as far as Shard uses it: a list is the sequence of its  *)
(* elements' entries, front first; an element is named by its entry's key. *)

ListLen(l) == Len(l)

ListHas(l, ek) == \E i \in 1..Len(l) : l[i].key = ek

ListIndex(l, ek) == CHOOSE i \in 1..Len(l) : l[i].key = ek

ListRemoveAt(l, i) == SubSeq(l, 1, i - 1) \o SubSeq(l, i + 1, Len(l))

ListRemove(l, ek) == IF ListHas(l, ek) THEN ListRemoveAt(l, ListIndex(l, ek)) ELSE l

ListPushFront(l, ent) == <<ent>> \o l

ListMoveToFront(l, ek) ==
    IF ListHas(l, ek)
    THEN LET i == ListIndex(l, ek) IN <<l[i]>> \o ListRemoveAt(l, i)
    ELSE l

\* the key of list.Back(), or NoElem for nil
NoElem == << >>

ListBack(l) == IF Len(l) = 0 THEN NoElem ELSE l[Len(l)].key

\* elem.Value.(*entry).value = value
ListSetValue(l, ek, value) ==
    [i \in 1..Len(l) |-> IF l[i].key = ek THEN [l[i] EXCEPT !.value = value] ELSE l[i]]

ListValue(l, ek) == l[ListIndex(l, ek)].value

-----------------------------------------------------------------------------
(* Shard *)

MapPut(m, k, v) == [x \in DOMAIN m \cup {k} |-> IF x = k THEN v ELSE m[x]]

MapDelete(m, k) == [x \in DOMAIN m \ {k} |-> m[x]]

EmptyMap == [x \in {} |-> x]

\* a sync.Mutex that nobody holds; a held one carries the id of its holder
Unlocked == 0

newShard(capacity) ==
    [mu |-> Unlocked, data |-> EmptyMap, lru |-> << >>, capacity |-> capacity]

\* an eviction that forgets to delete the key from the map
evictKeepsData(s) ==
    LET elem == ListBack(s.lru)
    IN  IF elem = NoElem THEN s
        ELSE [s EXCEPT !.lru = ListRemove(s.lru, elem)]

evict(s) ==
    LET elem == ListBack(s.lru)
    IN  IF elem = NoElem THEN s
        ELSE [s EXCEPT !.data = MapDelete(s.data, elem),
                       !.lru = ListRemove(s.lru, elem)]

\* set with the capacity test off by one
ShardSetOffByOne(s, key, value) ==
    IF key \in DOMAIN s.data
    THEN LET elem == s.data[key]
         IN  [s EXCEPT !.lru = ListMoveToFront(ListSetValue(s.lru, elem, value), elem)]
    ELSE LET s1 == IF s.capacity > 0 /\ ListLen(s.lru) > s.capacity THEN evict(s) ELSE s
         IN  [s1 EXCEPT !.lru = ListPushFront(s1.lru, [key |-> key, value |-> value]),
                        !.data = MapPut(s1.data, key, key)]

\* set that promotes an existing key without storing the new value
ShardSetKeepsValue(s, key, value) ==
    IF key \in DOMAIN s.data
    THEN LET elem == s.data[key]
         IN  [s EXCEPT !.lru = ListMoveToFront(s.lru, elem)]
    ELSE LET s1 == IF s.capacity > 0 /\ ListLen(s.lru) >= s.capacity THEN evict(s) ELSE s
         IN  [s1 EXCEPT !.lru = ListPushFront(s1.lru, [key |-> key, value |-> value]),
                        !.data = MapPut(s1.data, key, key)]

\* set that tests the capacity before it looks the key up
ShardSetEvictsFirst(s, key, value) ==
    LET s1 == IF s.capacity > 0 /\ ListLen(s.lru) >= s.capacity THEN evict(s) ELSE s
    IN  IF key \in DOMAIN s1.data
        THEN LET elem == s1.data[key]
             IN  [s1 EXCEPT !.lru = ListMoveToFront(ListSetValue(s1.lru, elem, value), elem)]
        ELSE [s1 EXCEPT !.lru = ListPushFront(s1.lru, [key |-> key, value |-> value]),
                        !.data = MapPut(s1.data, key, key)]

ShardSet(s, key, value) ==
    IF key \in DOMAIN s.data
    THEN LET elem == s.data[key]
         IN  [s EXCEPT !.lru = ListMoveToFront(ListSetValue(s.lru, elem, value), elem)]
    ELSE LET s1 == IF s.capacity > 0 /\ ListLen(s.lru) >= s.capacity THEN evict(s) ELSE s
         IN  [s1 EXCEPT !.lru = ListPushFront(s1.lru, [key |-> key, value |-> value]),
                        !.data = MapPut(s1.data, key, key)]

ErrNone == "nil"
ErrNotFound == "key not found"

\* get that does not move the element to the front
ShardGetNoPromote(s, key) ==
    IF key \in DOMAIN s.data
    THEN [shard |-> s, value |-> ListValue(s.lru, s.data[key]), err |-> ErrNone]
    ELSE [shard |-> s, value |-> EmptyString, err |-> ErrNotFound]

\* get that returns the zero value and no error for a missing key
ShardGetNoError(s, key) ==
    IF key \in DOMAIN s.data
    THEN LET elem == s.data[key]
         IN  [shard |-> [s EXCEPT !.lru = ListMoveToFront(s.lru, elem)],
              value |-> ListValue(s.lru, elem),
              err   |-> ErrNone]
    ELSE [shard |-> s, value |-> EmptyString, err |-> ErrNone]

\* the shard after get, the value returned and the error returned
ShardGet(s, key) ==
    IF key \in DOMAIN s.data
    THEN LET elem == s.data[key]
         IN  [shard |-> [s EXCEPT !.lru = ListMoveToFront(s.lru, elem)],
              value |-> ListValue(s.lru, elem),
              err   |-> ErrNone]
    ELSE [shard |-> s, value |-> EmptyString, err |-> ErrNotFound]

\* delete that forgets the list element
ShardDeleteKeepsElem(s, key) ==
    IF key \in DOMAIN s.data
    THEN [s EXCEPT !.data = MapDelete(s.data, key)]
    ELSE s

ShardDelete(s, key) ==
    IF key \in DOMAIN s.data
    THEN LET elem == s.data[key]
         IN  [s EXCEPT !.lru = ListRemove(s.lru, elem),
                       !.data = MapDelete(s.data, key)]
    ELSE s

-----------------------------------------------------------------------------
(* ShardedCache *)

DefaultShardCount == 16
DefaultShardCapacity == 100

WithShardCount(n) == [opt |-> "WithShardCount", arg |-> n]
WithShardCapacity(cap) == [opt |-> "WithShardCapacity", arg |-> cap]

\* an option that stores its argument without testing it
ApplyOptionUnchecked(c, o) ==
    IF o.opt = "WithShardCount"
    THEN [c EXCEPT !.shardCount = o.arg]
    ELSE [c EXCEPT !.shardCapacity = o.arg]

ApplyOption(c, o) ==
    IF o.opt = "WithShardCount"
    THEN (IF o.arg > 0 THEN [c EXCEPT !.shardCount = o.arg] ELSE c)
    ELSE (IF o.arg > 0 THEN [c EXCEPT !.shardCapacity = o.arg] ELSE c)

RECURSIVE ApplyOptions(_, _)
ApplyOptions(c, opts) ==
    IF opts = << >> THEN c
    ELSE ApplyOptions(ApplyOption(c, Head(opts)), Tail(opts))

\* shard i of the code is shards[i + 1] here
NewShardedCache(opts) ==
    LET c == ApplyOptions([shardCount |-> DefaultShardCount,
                           shardCapacity |-> DefaultShardCapacity], opts)
    IN  [shardCount    |-> c.shardCount,
         shardCapacity |-> c.shardCapacity,
         shards        |-> [i \in 1..c.shardCount |-> newShard(c.shardCapacity)]]

\* a routing that depends on how full the first shard is
getShardByFill(c, key) ==
    (HashMod(Sum32a(key), c.shardCount) + ListLen(c.shards[1].lru)) % c.shardCount

\* the index of the shard of key
getShard(c, key) == HashMod(Sum32a(key), c.shardCount)

ShardOf(c, key) == c.shards[getShard(c, key) + 1]

CacheWithShard(c, key, s) == [c EXCEPT !.shards[getShard(c, key) + 1] = s]

\* a Set that writes the key to every shard
ShardedSetEverywhere(c, key, value) ==
    [c EXCEPT !.shards = [i \in DOMAIN c.shards |-> ShardSet(c.shards[i], key, value)]]

ShardedSet(c, key, value) == CacheWithShard(c, key, ShardSet(ShardOf(c, key), key, value))

ShardedGet(c, key) ==
    LET r == ShardGet(ShardOf(c, key), key)
    IN  [cache |-> CacheWithShard(c, key, r.shard), value |-> r.value, err |-> r.err]

ShardedDelete(c, key) == CacheWithShard(c, key, ShardDelete(ShardOf(c, key), key))

-----------------------------------------------------------------------------
(* The options and the history kept for the callers of a ShardedCache *)

Options == { WithShardCount(n) : n \in 0..MaxOptArg }
             \cup { WithShardCapacity(n) : n \in 0..MaxOptArg }

OptionLists == UNION { [1..n -> Options] : n \in 0..MaxOpts }

\* the keys stored in a shard, by its list
ShardKeys(s) == { s.lru[i].key : i \in 1..Len(s.lru) }

StoredKeys(c) == UNION { ShardKeys(c.shards[i]) : i \in 1..c.shardCount }

SeqWithout(q, k) == SelectSeq(q, LAMBDA x : x # k)

\* the history after a call that accessed key (or not) and removed the keys gone
Touch(q, key, gone) == <<key>> \o SelectSeq(q, LAMBDA x : x # key /\ x \notin gone)

Drop(q, gone) == SelectSeq(q, LAMBDA x : x \notin gone)

\* a call: value is the value passed (set) or returned (get); had tells whether the
\* key was stored before the call, gone the keys the call removed
Call(op, key, value, err, had, gone) ==
    [op |-> op, key |-> key, value |-> value, err |-> err, had |-> had, gone |-> gone]

NoCall == Call("none", EmptyString, EmptyString, ErrNone, FALSE, {})

-----------------------------------------------------------------------------
(* Cache: the plain map the server creates with NewCache *)

NewCache == EmptyMap

CacheSet(data, key, value) == MapPut(data, key, value)

CacheGet(data, key) ==
    IF key \in DOMAIN data
    THEN [value |-> data[key], err |-> ErrNone]
    ELSE [value |-> EmptyString, err |-> ErrNotFound]

CacheDelete(data, key) == MapDelete(data, key)

-----------------------------------------------------------------------------
(* strings.Fields, strings.ToUpper, strings.Join on byte strings *)

IsSpace(b) == b \in {9, 10, 11, 12, 13, 32}

\* the fields of s from position i on; cur is the field being read
RECURSIVE FieldsFrom(_, _, _)
FieldsFrom(s, i, cur) ==
    IF i > Len(s) THEN (IF cur = << >> THEN << >> ELSE <<cur>>)
    ELSE IF IsSpace(s[i])
         THEN (IF cur = << >> THEN << >> ELSE <<cur>>) \o FieldsFrom(s, i + 1, << >>)
         ELSE FieldsFrom(s, i + 1, Append(cur, s[i]))

Fields(s) == FieldsFrom(s, 1, << >>)

ToUpper(s) == [i \in 1..Len(s) |-> IF s[i] \in 97..122 THEN s[i] - 32 ELSE s[i]]

RECURSIVE Join(_, _)
Join(parts, sep) ==
    IF parts = << >> THEN << >>
    ELSE IF Len(parts) = 1 THEN parts[1]
    ELSE parts[1] \o sep \o Join(Tail(parts), sep)

Space == <<32>>
CmdSET  == <<83, 69, 84>>
CmdGET  == <<71, 69, 84>>
CmdDEL  == <<68, 69, 76>>
CmdAUTH == <<65, 85, 84, 72>>

-----------------------------------------------------------------------------
(* cmd/server: flags, the connection channel, the workers, handleConnection *)

\* make(chan net.Conn, 100)
QueueCapacity == 100

\* flag.Int("workers", 10, ...)
DefaultWorkerCount == 10

\* flag.String("password", "secret", ...)
DefaultPassword == <<115, 101, 99, 114, 101, 116>>

\* the workers main launches: for i := 0; i < *workerCount; i++
WorkerIds(f) == 1..f.workerCount

NoConn == 0

\* what a handler wrote to its connection, or how it left it
Event(conn, kind, msg, value) == [conn |-> conn, kind |-> kind, msg |-> msg, value |-> value]

NoEvent == Event(NoConn, "none", "", EmptyString)

Reply(conn, msg) == Event(conn, IF msg = "OK" THEN "OK" ELSE "ERROR", msg, EmptyString)

Exit(conn, why) == Event(conn, "EXIT", why, EmptyString)

IdleWorker == [pc |-> "recv", conn |-> NoConn, authenticated |-> FALSE]

\* the state main reaches before its accept loop
ServerInit(f, e) ==
    /\ flags = f
    /\ env = e
    /\ accepted = 0
    /\ acceptor = [pc |-> "accept", conn |-> NoConn]
    /\ connChan = << >>
    /\ workers = [w \in WorkerIds(f) |-> IdleWorker]
    /\ closes = [c \in 1..e.conns |-> 0]
    /\ cacheInstance = NewCache
    /\ lastEvent = NoEvent

\* conn, err := ln.Accept() with err == nil
Accept ==
    /\ acceptor.pc = "accept"
    /\ accepted < env.conns
    /\ accepted' = accepted + 1
    /\ acceptor' = [pc |-> "send", conn |-> accepted + 1]
    /\ UNCHANGED <<flags, env, connChan, workers, closes, cacheInstance, lastEvent>>
    /\ UNCHANGED libVars

\* ln.Accept() fails: logged, and the loop continues
AcceptError ==
    /\ acceptor.pc = "accept"
    /\ UNCHANGED serverVars
    /\ UNCHANGED libVars

\* a channel that grows instead of blocking the sender
ChanNeverFull(ch) == TRUE

\* connChan <- conn can proceed
ChanCanSend(ch) == Len(ch) < QueueCapacity

Submit ==
    /\ acceptor.pc = "send"
    /\ ChanCanSend(connChan)
    /\ connChan' = Append(connChan, acceptor.conn)
    /\ acceptor' = [pc |-> "accept", conn |-> NoConn]
    /\ UNCHANGED <<flags, env, accepted, workers, closes, cacheInstance, lastEvent>>
    /\ UNCHANGED libVars

\* a receive that leaves the connection in the channel
ChanRecvKeeps(ch) == ch

\* what is left in the channel after a receive
ChanAfterRecv(ch) == Tail(ch)

\* a handler that takes every connection as authenticated
StartsAuthenticatedAlways(f) == TRUE

\* authenticated := !*authEnabled
StartsAuthenticated(f) == ~f.authEnabled

\* for conn := range connChan, and the start of handleConnection
Dequeue(w) ==
    /\ workers[w].pc = "recv"
    /\ connChan # << >>
    /\ workers' = [workers EXCEPT ![w] = [pc |-> "handle", conn |-> Head(connChan),
                                          authenticated |-> StartsAuthenticated(flags)]]
    /\ connChan' = ChanAfterRecv(connChan)
    /\ UNCHANGED <<flags, env, accepted, acceptor, closes, cacheInstance, lastEvent>>
    /\ UNCHANGED libVars

\* a return that does not close
CloseForgotten(cl, conn) == cl

\* conn.Close()
Close(cl, conn) == [cl EXCEPT ![conn] = @ + 1]

\* a worker that stops after its first connection
ReturnAndStop(w, why) ==
    /\ closes' = Close(closes, workers[w].conn)
    /\ workers' = [workers EXCEPT ![w] = [IdleWorker EXCEPT !.pc = "done"]]
    /\ lastEvent' = Exit(workers[w].conn, why)

\* handleConnection returns: its deferred conn.Close() runs and the worker loops
Return(w, why) ==
    /\ closes' = Close(closes, workers[w].conn)
    /\ workers' = [workers EXCEPT ![w] = IdleWorker]
    /\ lastEvent' = Exit(workers[w].conn, why)

\* the loop body of handleConnection for one line: what it does to the cache, the
\* connection's authenticated, what it writes, and whether it returns
HandleResult(data, authenticated, conn, line) ==
    LET parts   == Fields(line)
        command == ToUpper(parts[1])
        stay(d, a, ev) == [data |-> d, authenticated |-> a, event |-> ev, return |-> FALSE]
    IN  IF Len(parts) = 0 THEN stay(data, authenticated, NoEvent)
        ELSE IF flags.authEnabled /\ ~authenticated
        THEN IF command # CmdAUTH
             THEN stay(data, authenticated,
                       Reply(conn, "ERROR: Authentication required. Please use AUTH <password>"))
             ELSE IF Len(parts) < 2 \/ parts[2] # flags.authPassword
             THEN [data |-> data, authenticated |-> authenticated,
                   event |-> Reply(conn, "ERROR: Invalid password"), return |-> TRUE]
             ELSE stay(data, TRUE, Reply(conn, "OK"))
        ELSE IF command = CmdSET
        THEN IF Len(parts) < 3
             THEN stay(data, authenticated, Reply(conn, "ERROR: SET requires key and value"))
             ELSE stay(CacheSet(data, parts[2], Join(SubSeq(parts, 3, Len(parts)), Space)),
                       authenticated, Reply(conn, "OK"))
        ELSE IF command = CmdGET
        THEN IF Len(parts) < 2
             THEN stay(data, authenticated, Reply(conn, "ERROR: GET requires key"))
             ELSE LET r == CacheGet(data, parts[2])
                  IN  IF r.err # ErrNone
                      THEN stay(data, authenticated, Reply(conn, "ERROR: key not found"))
                      ELSE stay(data, authenticated, Event(conn, "VALUE", "", r.value))
        ELSE IF command = CmdDEL
        THEN IF Len(parts) < 2
             THEN stay(data, authenticated, Reply(conn, "ERROR: DEL requires key"))
             ELSE stay(CacheDelete(data, parts[2]), authenticated, Reply(conn, "OK"))
        ELSE stay(data, authenticated, Reply(conn, "ERROR: unknown command"))

\* the decimal digits of n, and the key "k<n>"
RECURSIVE Digits(_)
Digits(n) == IF n < 10 THEN <<48 + n>> ELSE Append(Digits(n \div 10), 48 + (n % 10))

KeyName(n) == <<107>> \o Digits(n)

\* the lines a client may send next: those of env, and a SET of a key not yet used
ClientLines ==
    env.lines \cup
    (IF Cardinality(DOMAIN cacheInstance) < env.freshKeys
     THEN { CmdSET \o Space \o KeyName(Cardinality(DOMAIN cacheInstance) + 1) \o Space \o <<49>> }
     ELSE {})

\* scanner.Scan() returns true with line, and the loop body runs
HandleLine(w, line) ==
    /\ workers[w].pc = "handle"
    /\ LET r == HandleResult(cacheInstance, workers[w].authenticated, workers[w].conn, line)
       IN  /\ cacheInstance' = r.data
           /\ IF r.return
              THEN Return(w, "auth")
              ELSE /\ workers' = [workers EXCEPT ![w].authenticated = r.authenticated]
                   /\ lastEvent' = IF r.event = NoEvent THEN lastEvent ELSE r.event
                   /\ UNCHANGED closes
    /\ UNCHANGED <<flags, env, accepted, acceptor, connChan>>
    /\ UNCHANGED libVars

\* scanner.Scan() returns false: the peer closed (eof) or the read failed (error)
HandleEnd(w, why) ==
    /\ workers[w].pc = "handle"
    /\ Return(w, why)
    /\ UNCHANGED <<flags, env, accepted, acceptor, connChan, cacheInstance>>
    /\ UNCHANGED libVars

ServerNext ==
    \/ Accept
    \/ AcceptError
    \/ Submit
    \/ \E w \in WorkerIds(flags) : Dequeue(w)
    \/ \E w \in WorkerIds(flags) : \E line \in ClientLines : HandleLine(w, line)
    \/ \E w \in WorkerIds(flags) : \E why \in {"eof", "error"} : HandleEnd(w, why)

-----------------------------------------------------------------------------
(* The clients of the server *)

LineSetA   == <<83, 69, 84, 32, 97, 32, 49>>                 \* "SET a 1"
LineGetA   == <<103, 101, 116, 32, 97>>                      \* "get a"
LineDelA   == <<68, 69, 76, 32, 32, 97>>                     \* "DEL  a"
LineAuth   == CmdAUTH \o Space \o DefaultPassword            \* "AUTH secret"
LineAuthNo == <<65, 85, 84, 72, 32, 120>>                    \* "AUTH x"
LineBlank  == <<32>>                                         \* " "
LineAuthBare == <<97, 117, 116, 104>>                        \* "auth"

SmallLines == {LineSetA, LineGetA, LineDelA, LineAuth, LineAuthNo, LineBlank, LineAuthBare}

Flags(a, n) == [authEnabled |-> a, authPassword |-> DefaultPassword, workerCount |-> n]

-----------------------------------------------------------------------------
(* The callers of a ShardedCache: one call at a time on each shard, as each *)
(* of set, get and delete runs under the shard's mutex                      *)

\* no concurrent callers
NoCallers == [c \in {} |-> c]

\* a cache built from opts, before any call
LibInit(opts) ==
    /\ sc = NewShardedCache(opts)
    /\ lastCall = NoCall
    /\ written = EmptyMap
    /\ recency = << >>
    /\ callers = NoCallers

Set(key, value) ==
    LET c2   == ShardedSet(sc, key, value)
        gone == StoredKeys(sc) \ StoredKeys(c2)
    IN  /\ sc' = c2
        /\ lastCall' = Call("set", key, value, ErrNone, key \in StoredKeys(sc), gone)
        /\ written' = MapPut([k \in DOMAIN written \ gone |-> written[k]], key, value)
        /\ recency' = Touch(recency, key, gone)
        /\ UNCHANGED callers
        /\ UNCHANGED serverVars

Get(key) ==
    LET r    == ShardedGet(sc, key)
        gone == StoredKeys(sc) \ StoredKeys(r.cache)
    IN  /\ sc' = r.cache
        /\ lastCall' = Call("get", key, r.value, r.err, key \in StoredKeys(sc), gone)
        /\ written' = [k \in DOMAIN written \ gone |-> written[k]]
        /\ recency' = IF r.err = ErrNone THEN Touch(recency, key, gone)
                                         ELSE Drop(recency, gone)
        /\ UNCHANGED callers
        /\ UNCHANGED serverVars

Delete(key) ==
    LET c2   == ShardedDelete(sc, key)
        gone == StoredKeys(sc) \ StoredKeys(c2)
    IN  /\ sc' = c2
        /\ lastCall' = Call("delete", key, EmptyString, ErrNone, key \in StoredKeys(sc), gone)
        /\ written' = [k \in DOMAIN written \ (gone \cup {key}) |-> written[k]]
        /\ recency' = Drop(recency, gone \cup {key})
        /\ UNCHANGED callers
        /\ UNCHANGED serverVars

LibNext ==
    \/ \E key \in Keys, value \in Values : Set(key, value)
    \/ \E key \in Keys : Get(key)
    \/ \E key \in Keys : Delete(key)

-----------------------------------------------------------------------------
(* Concurrent callers of a ShardedCache: Shard.set, get and delete step by  *)
(* step, each under s.mu.Lock() and the deferred s.mu.Unlock()              *)

\* the goroutines that call the cache
CallerIds == {1, 2}

\* what a caller has read of its shard
Local(s) == [data |-> s.data, lru |-> s.lru]

NoLocal == [data |-> EmptyMap, lru |-> << >>]

\* what a call returns
Ret(value, err) == [value |-> value, err |-> err]

NoRet == Ret(EmptyString, ErrNone)

IdleCaller ==
    [pc |-> "idle", op |-> "none", key |-> EmptyString, value |-> EmptyString,
     shard |-> 0, local |-> NoLocal, ret |-> NoRet]

\* a Lock that never waits
MutexAlwaysFree(m) == TRUE

\* s.mu.Lock() can proceed
MutexFree(m) == m = Unlocked

\* ShardedCache.Set / Get / Delete is called: sc.getShard(key) picks the shard
Begin(c, op, key, value) ==
    /\ callers[c].pc = "idle"
    /\ callers' = [callers EXCEPT ![c] =
                      [IdleCaller EXCEPT !.pc = "lock", !.op = op, !.key = key,
                                         !.value = value,
                                         !.shard = getShard(sc, key) + 1]]
    /\ UNCHANGED <<sc, lastCall, written, recency>>
    /\ UNCHANGED serverVars

\* s.mu.Lock()
Lock(c) ==
    /\ callers[c].pc = "lock"
    /\ MutexFree(sc.shards[callers[c].shard].mu)
    /\ sc' = [sc EXCEPT !.shards[callers[c].shard].mu = c]
    /\ callers' = [callers EXCEPT ![c].pc = "read"]
    /\ UNCHANGED <<lastCall, written, recency>>
    /\ UNCHANGED serverVars

\* the reads of the call: s.data[key], s.lru.Len(), s.lru.Back()
Read(c) ==
    /\ callers[c].pc = "read"
    /\ callers' = [callers EXCEPT ![c].pc = "write",
                                  ![c].local = Local(sc.shards[callers[c].shard])]
    /\ UNCHANGED <<sc, lastCall, written, recency>>
    /\ UNCHANGED serverVars

\* what the call makes of the shard it read, and what it returns
Outcome(s, op, key, value) ==
    IF op = "set" THEN [shard |-> ShardSet(s, key, value), ret |-> NoRet]
    ELSE IF op = "get"
    THEN LET r == ShardGet(s, key) IN [shard |-> r.shard, ret |-> Ret(r.value, r.err)]
    ELSE [shard |-> ShardDelete(s, key), ret |-> NoRet]

\* the writes of the call, to the map and the list, and its return value
Write(c) ==
    LET me  == callers[c]
        s   == [sc.shards[me.shard] EXCEPT !.data = me.local.data, !.lru = me.local.lru]
        out == Outcome(s, me.op, me.key, me.value)
    IN  /\ me.pc = "write"
        /\ sc' = [sc EXCEPT !.shards[me.shard].data = out.shard.data,
                            !.shards[me.shard].lru = out.shard.lru]
        /\ callers' = [callers EXCEPT ![c].pc = "unlock", ![c].ret = out.ret,
                                      ![c].local = NoLocal]
        /\ UNCHANGED <<lastCall, written, recency>>
        /\ UNCHANGED serverVars

\* a return that leaves the mutex locked
UnlockForgotten(c) ==
    /\ callers[c].pc = "unlock"
    /\ callers' = [callers EXCEPT ![c] = IdleCaller]
    /\ UNCHANGED <<sc, lastCall, written, recency>>
    /\ UNCHANGED serverVars

\* the deferred s.mu.Unlock(), and the return to the caller
Unlock(c) ==
    /\ callers[c].pc = "unlock"
    /\ sc' = [sc EXCEPT !.shards[callers[c].shard].mu = Unlocked]
    /\ callers' = [callers EXCEPT ![c] = IdleCaller]
    /\ UNCHANGED <<lastCall, written, recency>>
    /\ UNCHANGED serverVars

ConcurrentNext ==
    \/ \E c \in CallerIds : \E key \in Keys, value \in Values : Begin(c, "set", key, value)
    \/ \E c \in CallerIds : \E key \in Keys : Begin(c, "get", key, EmptyString)
    \/ \E c \in CallerIds : \E key \in Keys : Begin(c, "delete", key, EmptyString)
    \/ \E c \in CallerIds : Lock(c)
    \/ \E c \in CallerIds : Read(c)
    \/ \E c \in CallerIds : Write(c)
    \/ \E c \in CallerIds : Unlock(c)

-----------------------------------------------------------------------------
(* Specifications *)

\* no server
NoServer == [conns |-> 0, lines |-> {}, freshKeys |-> 0]

\* callers of a ShardedCache built with any options
Init ==
    \E opts \in OptionLists :
        LibInit(opts) /\ ServerInit(Flags(FALSE, 0), NoServer)

Spec == Init /\ [][LibNext]_vars

\* the server with a few clients, under any flags
InitServer ==
    \E a \in BOOLEAN, n \in -1..MaxWorkers :
        /\ LibInit(<< >>)
        /\ ServerInit(Flags(a, n),
                      [conns |-> MaxConns, lines |-> SmallLines, freshKeys |-> 0])

SpecServer == InitServer /\ [][ServerNext]_vars

\* the server under load: more clients than the channel and one worker hold
InitLoad ==
    /\ LibInit(<< >>)
    /\ ServerInit(Flags(FALSE, 1),
                  [conns |-> QueueCapacity + 1 + ExtraConns, lines |-> {LineGetA},
                   freshKeys |-> 0])

SpecLoad == InitLoad /\ [][ServerNext]_vars

\* the server with one client that sets more keys than a default ShardedCache holds
InitFill ==
    /\ LibInit(<< >>)
    /\ ServerInit(Flags(FALSE, 1),
                  [conns |-> 1, lines |-> {},
                   freshKeys |-> DefaultShardCount * DefaultShardCapacity + 1])

SpecFill == InitFill /\ [][ServerNext]_vars

\* the options a caller can pass, invalid ones included
AnyOptions == { WithShardCount(n) : n \in -1..MaxOptArg }
                \cup { WithShardCapacity(n) : n \in -1..MaxOptArg }

AnyOptionLists == UNION { [1..n -> AnyOptions] : n \in 0..MaxOpts }

\* the environment of a cache built from opts whose caller sets n fresh keys
Built(opts, n) == [conns |-> 0, lines |-> {}, freshKeys |-> n, opts |-> opts]

\* sc.getShard(key): the index it computes
Route(key) ==
    /\ lastCall' = [op |-> "getShard", key |-> key, index |-> getShard(sc, key)]
    /\ UNCHANGED <<sc, written, recency, callers>>
    /\ UNCHANGED serverVars

BuiltNext == \E key \in Keys : Route(key)

\* a cache built from any list of options, and the shard index of any key
InitBuilt ==
    \E opts \in AnyOptionLists :
        LibInit(opts) /\ ServerInit(Flags(FALSE, 0), Built(opts, 0))

SpecBuilt == InitBuilt /\ [][BuiltNext]_vars

\* option lists that ask for one shard and a capacity that is not positive
ZeroCapOptionLists == { <<WithShardCount(1), WithShardCapacity(n)>> : n \in {-1, 0} }

\* Set of the next key not yet used: "k1", "k2", ...
SetFresh ==
    \E n \in 1..env.freshKeys :
        /\ n = Cardinality(StoredKeys(sc)) + 1
        /\ Set(KeyName(n), <<49>>)

\* a cache asked to have capacity 0 or less, and a caller that sets one more
\* key than the default capacity
InitZeroCap ==
    \E opts \in ZeroCapOptionLists :
        LibInit(opts) /\ ServerInit(Flags(FALSE, 0), Built(opts, DefaultShardCapacity + 1))

SpecZeroCap == InitZeroCap /\ [][SetFresh]_vars

\* the workers started and the clients that connect: one worker under load,
\* and several workers with a few clients
DispatchScenarios ==
    { [workerCount |-> 1, conns |-> QueueCapacity + 1 + ExtraConns],
      [workerCount |-> MaxWorkers, conns |-> MaxConns] }

\* the server with one worker or more
InitDispatch ==
    \E d \in DispatchScenarios :
        /\ LibInit(<< >>)
        /\ ServerInit(Flags(FALSE, d.workerCount),
                      [conns |-> d.conns, lines |-> {LineGetA}, freshKeys |-> 0])

\* the goroutines of the server are scheduled fairly: a send or a receive on
\* connChan that can proceed does proceed
DispatchFairness ==
    /\ WF_vars(Submit)
    /\ \A w \in 1..MaxWorkers : WF_vars(w \in DOMAIN workers /\ Dequeue(w))

SpecDispatch == InitDispatch /\ [][ServerNext]_vars /\ DispatchFairness

\* two goroutines calling a cache of two shards that hold one key each
InitConcurrent ==
    /\ sc = NewShardedCache(<<WithShardCount(2), WithShardCapacity(1)>>)
    /\ lastCall = NoCall
    /\ written = EmptyMap
    /\ recency = << >>
    /\ callers = [c \in CallerIds |-> IdleCaller]
    /\ ServerInit(Flags(FALSE, 0), NoServer)

\* a goroutine that can take a step takes one, and one that waits for a mutex
\* that is unlocked again and again gets it (sync.Mutex hands the mutex to a
\* waiter that has starved)
ConcurrentFairness ==
    \A c \in CallerIds :
        /\ SF_vars(Lock(c))
        /\ WF_vars(Read(c))
        /\ WF_vars(Write(c))
        /\ WF_vars(Unlock(c))

SpecConcurrent == InitConcurrent /\ [][ConcurrentNext]_vars /\ ConcurrentFairness

-----------------------------------------------------------------------------
(* Properties of the sharded cache, checked under Spec *)

ShardIds == 1..sc.shardCount

\* what the callers can see of a key: the result of a get, without its promotion
Seen(c, k) == LET r == ShardedGet(c, k) IN [value |-> r.value, err |-> r.err]

\* the keys of a list, in its order
KeyOrder(l) == [i \in 1..Len(l) |-> l[i].key]

Position(q, k) == CHOOSE i \in 1..Len(q) : q[i] = k

\* among the keys ks, the one whose most recent access is the oldest
IsOldest(e, ks) ==
    /\ e \in ks
    /\ \A x \in ks : \E i \in 1..Len(recency) : recency[i] = x
    /\ \A x \in ks \ {e} : Position(recency, x) < Position(recency, e)

\* C1: a shard of capacity C > 0 never holds more than C entries, and never more
\* entries than keys were set (and not removed since).
CapacityInvariant ==
    \A i \in ShardIds :
        LET s == sc.shards[i]
        IN  s.capacity > 0 =>
              /\ ListLen(s.lru) <= s.capacity
              /\ Cardinality(DOMAIN s.data) <= s.capacity
              /\ Cardinality(ShardKeys(s)) <= Cardinality(DOMAIN written)

\* a set has just evicted from a shard that stays full
CapacityWitness ==
    /\ lastCall.op = "set"
    /\ lastCall.gone # {}
    /\ LET s == ShardOf(sc, lastCall.key)
       IN  s.capacity > 1 /\ ListLen(s.lru) = s.capacity

\* C2: a set of an absent key into a full shard (capacity C > 0) removes exactly
\* one entry, the one whose most recent access (successful get or set) is the
\* oldest of the shard; the other entries stay, with their values.
LruEvictionStep ==
    \A k \in Keys :
        LET s  == ShardOf(sc, k)
            s2 == ShardOf(sc', k)
        IN  ( /\ lastCall'.op = "set" /\ lastCall'.key = k
              /\ k \notin ShardKeys(s)
              /\ s.capacity > 0 /\ ListLen(s.lru) = s.capacity )
            =>
            \E e \in ShardKeys(s) :
                /\ IsOldest(e, ShardKeys(s))
                /\ ShardKeys(s2) = (ShardKeys(s) \ {e}) \cup {k}
                /\ ListLen(s2.lru) = ListLen(s.lru)
                /\ lastCall'.gone = {e}
                /\ Seen(sc', e).err = ErrNotFound
                /\ Seen(sc', k) = [value |-> lastCall'.value, err |-> ErrNone]
                /\ \A x \in ShardKeys(s) \ {e} : Seen(sc', x) = Seen(sc, x)

LruEviction == [][LruEvictionStep]_vars

\* set(a,1), set(b,_), get(a), set(c,_) on one shard of capacity 2: b is gone
LruEvictionWitness ==
    /\ sc.shardCount = 1 /\ sc.shardCapacity = 2
    /\ lastCall.op = "set" /\ lastCall.key = <<99>> /\ lastCall.gone = {<<98>>}
    /\ recency = << <<99>>, <<97>> >>
    /\ Seen(sc, <<97>>) = [value |-> <<49>>, err |-> ErrNone]
    /\ Seen(sc, <<98>>).err = ErrNotFound

\* C3: while a key set to v is neither set again, deleted nor evicted, get returns v
\* and no error; and a get never returns another value than the latest set of the key.
RoundTrip ==
    /\ \A k \in DOMAIN written : Seen(sc, k) = [value |-> written[k], err |-> ErrNone]
    /\ (lastCall.op = "get" /\ lastCall.err = ErrNone) =>
          /\ lastCall.key \in DOMAIN written
          /\ lastCall.value = written[lastCall.key]

\* a get has returned the second value given to a key
RoundTripWitness ==
    /\ lastCall.op = "get" /\ lastCall.err = ErrNone
    /\ lastCall.value = <<50>>
    /\ Cardinality(DOMAIN written) > 1

\* C4: the only error is NotFound; get fails exactly on a key that is absent (never
\* set, deleted or evicted); set and delete never fail; a failing get changes nothing.
NotFoundOnly ==
    /\ lastCall.err \in {ErrNone, ErrNotFound}
    /\ lastCall.op \in {"set", "delete"} => lastCall.err = ErrNone
    /\ lastCall.op = "get" => (lastCall.err = ErrNotFound <=> ~lastCall.had)
    /\ \A k \in Keys :
          LET r == ShardedGet(sc, k)
          IN  /\ r.err \in {ErrNone, ErrNotFound}
              /\ r.err = ErrNotFound <=> k \notin DOMAIN written
              /\ r.err = ErrNotFound => r.cache = sc

\* a get has failed on an evicted key, other keys being stored
NotFoundWitness ==
    /\ lastCall.op = "get" /\ lastCall.err = ErrNotFound
    /\ lastCall.key \notin DOMAIN written
    /\ Cardinality(StoredKeys(sc)) > 1

\* C5: after delete(k), get(k) fails until k is set again; deleting an absent key
\* changes nothing; a second delete(k) changes nothing; no other key is affected.
DeleteProperties ==
    /\ lastCall.op = "delete" => Seen(sc, lastCall.key).err = ErrNotFound
    /\ \A k \in Keys \ DOMAIN written : Seen(sc, k).err = ErrNotFound
    /\ \A k \in Keys :
          LET d1 == ShardedDelete(sc, k)
              d2 == ShardedDelete(d1, k)
          IN  /\ Seen(d1, k).err = ErrNotFound
              /\ d2 = d1
              /\ k \notin StoredKeys(sc) => d1 = sc
              /\ StoredKeys(d1) = StoredKeys(sc) \ {k}
              /\ \A x \in Keys \ {k} : Seen(d1, x) = Seen(sc, x)
              /\ \A i \in ShardIds :
                    KeyOrder(d1.shards[i].lru) = SeqWithout(KeyOrder(sc.shards[i].lru), k)

\* a stored key has just been deleted, another key staying
DeleteWitness ==
    /\ lastCall.op = "delete" /\ lastCall.had
    /\ lastCall.gone = {lastCall.key}
    /\ StoredKeys(sc) # {}

\* C6: a set of a key that is stored, even in a full shard, keeps the keys and the
\* count, changes only that key's value and makes the key the most recently used.
UpdateInPlace ==
    /\ (lastCall.op = "set" /\ lastCall.had) =>
          /\ lastCall.gone = {}
          /\ ShardOf(sc, lastCall.key).lru[1] = [key |-> lastCall.key, value |-> lastCall.value]
    /\ \A k \in StoredKeys(sc) : \A v \in Values :
          LET c2 == ShardedSet(sc, k, v)
              s  == ShardOf(sc, k)
              s2 == ShardOf(c2, k)
          IN  /\ ShardKeys(s2) = ShardKeys(s)
              /\ DOMAIN s2.data = DOMAIN s.data
              /\ ListLen(s2.lru) = ListLen(s.lru)
              /\ s2.lru[1] = [key |-> k, value |-> v]
              /\ Tail(KeyOrder(s2.lru)) = SeqWithout(KeyOrder(s.lru), k)
              /\ \A x \in Keys \ {k} : Seen(c2, x) = Seen(sc, x)
              /\ \A i \in ShardIds : i # getShard(sc, k) + 1 => c2.shards[i] = sc.shards[i]

\* a stored key that was not the most recent has just been set in a full shard
UpdateInPlaceWitness ==
    /\ lastCall.op = "set" /\ lastCall.had
    /\ LET s == ShardOf(sc, lastCall.key)
       IN  /\ s.capacity > 1 /\ ListLen(s.lru) = s.capacity
           /\ s.lru[1].key = lastCall.key
    /\ recency[1] = lastCall.key

-----------------------------------------------------------------------------
(* Properties of the server *)

ConnIds == 1..env.conns

\* the number of times conn c is in the channel
Queued(c) == Cardinality({ i \in 1..Len(connChan) : connChan[i] = c })

\* the workers handling conn c
Handlers(c) == { w \in WorkerIds(flags) : workers[w].pc = "handle" /\ workers[w].conn = c }

Submitting(c) == acceptor.pc = "send" /\ acceptor.conn = c

\* C7: the keys the server holds never number more than shardCount x shardCapacity
\* (16 x 100), whatever SET commands its connections send.
ServerKeysBounded ==
    Cardinality(DOMAIN cacheInstance) <= DefaultShardCount * DefaultShardCapacity

\* C8 as claimed: the channel never holds more than 100 connections and every
\* accepted connection is queued, in service or closed.
BackpressureAsClaimed ==
    /\ Len(connChan) <= QueueCapacity
    /\ \A c \in 1..accepted : Queued(c) > 0 \/ Handlers(c) # {} \/ closes[c] > 0

\* C8 (amended): the channel never holds more than its capacity of 100 connections; a
\* submit on a full channel waits until a worker receives; every accepted connection
\* is in exactly one place: held by the acceptor for its submit, queued, in service,
\* or closed.
BackpressureState ==
    /\ Len(connChan) <= QueueCapacity
    /\ acceptor.pc = "send" => (ENABLED Submit <=> Len(connChan) < QueueCapacity)
    /\ \A c \in ConnIds :
          IF c <= accepted
          THEN (IF Submitting(c) THEN 1 ELSE 0) + Queued(c) + Cardinality(Handlers(c))
                 + (IF closes[c] > 0 THEN 1 ELSE 0) = 1
          ELSE ~Submitting(c) /\ Queued(c) = 0 /\ Handlers(c) = {} /\ closes[c] = 0

BackpressureStep ==
    /\ (acceptor.pc = "send" /\ Len(connChan) = QueueCapacity) => acceptor' = acceptor
    /\ (acceptor.pc = "send" /\ acceptor'.pc = "accept") =>
          connChan' = Append(connChan, acceptor.conn)

Backpressure == []BackpressureState /\ [][BackpressureStep]_vars

\* the acceptor waits on a full channel
BackpressureWitness ==
    /\ acceptor.pc = "send"
    /\ Len(connChan) = QueueCapacity
    /\ \E w \in WorkerIds(flags) : workers[w].pc = "handle"

\* the connections received from the channel and not closed
InService == { c \in 1..accepted : ~Submitting(c) /\ Queued(c) = 0 /\ closes[c] = 0 }

\* C9: each connection in service is owned by exactly one worker, each worker owns at
\* most one connection, at most N (the pool size) are in service, and a worker
\* receives its next connection only when it has finished the previous one.
OwnershipState ==
    /\ \A c \in InService : Cardinality(Handlers(c)) = 1
    /\ \A w \in WorkerIds(flags) :
          /\ workers[w].pc = "recv" => workers[w].conn = NoConn
          /\ workers[w].pc = "handle" => workers[w].conn \in InService
    /\ Cardinality(InService) <= Cardinality(WorkerIds(flags))

OwnershipStep ==
    \A w \in WorkerIds(flags) :
        (workers'[w].conn # workers[w].conn /\ workers'[w].conn # NoConn) =>
            /\ workers[w].pc = "recv"
            /\ Len(connChan) > 0 /\ workers'[w].conn = Head(connChan)
            /\ \A c \in 1..accepted : (Queued(c) = 0 /\ ~Submitting(c)) =>
                  (closes[c] > 0 \/ \E w2 \in WorkerIds(flags) \ {w} : w2 \in Handlers(c))

Ownership == []OwnershipState /\ [][OwnershipStep]_vars

\* every worker of a pool of two serves a connection while another one waits
OwnershipWitness ==
    /\ flags.workerCount = 2
    /\ Cardinality(InService) = 2
    /\ connChan # << >>
    /\ \E c \in ConnIds : closes[c] > 0

\* where a connection is
Lifecycle(c) ==
    IF closes[c] > 0 THEN "Closed"
    ELSE IF c > accepted THEN "None"
    ELSE IF Submitting(c) THEN "Accepted"
    ELSE IF Queued(c) > 0 THEN "Queued"
    ELSE IF Handlers(c) # {} THEN "InService"
    ELSE "Lost"

LifecycleMoves ==
    { <<"None", "Accepted">>, <<"Accepted", "Queued">>, <<"Queued", "InService">>,
      <<"InService", "Closed">> }

\* C10: a connection only moves Accepted -> Queued -> InService -> Closed, one state
\* at a time and never back, and is closed exactly once, on every way out of the handler.
LifecycleState ==
    \A c \in ConnIds :
        /\ Lifecycle(c) # "Lost"
        /\ closes[c] <= 1
        /\ closes[c] > 0 => ~Submitting(c) /\ Queued(c) = 0 /\ Handlers(c) = {}

LifecycleStep ==
    /\ \A c \in ConnIds :
          Lifecycle(c)' # Lifecycle(c) => <<Lifecycle(c), Lifecycle(c)'>> \in LifecycleMoves
    /\ \A w \in WorkerIds(flags) :
          (workers[w].pc = "handle" /\ workers'[w].pc = "recv") =>
              closes'[workers[w].conn] = closes[workers[w].conn] + 1

ConnLifecycle == []LifecycleState /\ [][LifecycleStep]_vars

\* every connection is closed, the last one after a failed AUTH
ConnLifecycleWitness ==
    /\ \A c \in ConnIds : closes[c] = 1
    /\ lastEvent.kind = "EXIT" /\ lastEvent.msg = "auth"
    /\ cacheInstance # NewCache

-----------------------------------------------------------------------------
(* Further properties of the sharded cache, checked under Spec *)

\* the number of elements of the list l that carry key k
Occurrences(l, k) == Cardinality({ j \in 1..Len(l) : l[j].key = k })

\* C17: in every reachable state of a shard the keys of the lookup map are the
\* keys of the recency list, each key occurs exactly once in the list, and the
\* map entry of a key points at the list element that carries that key.
IndexConsistency ==
    \A i \in ShardIds :
        LET s == sc.shards[i]
        IN  /\ DOMAIN s.data = ShardKeys(s)
            /\ \A j \in 1..Len(s.lru) : Occurrences(s.lru, s.lru[j].key) = 1
            /\ Cardinality(DOMAIN s.data) = ListLen(s.lru)
            /\ \A k \in DOMAIN s.data :
                   /\ ListHas(s.lru, s.data[k])
                   /\ s.lru[ListIndex(s.lru, s.data[k])].key = k

\* a set has just evicted an entry, and a shard holds two keys
IndexConsistencyWitness ==
    /\ lastCall.op = "set"
    /\ lastCall.gone # {}
    /\ \E i \in ShardIds : ListLen(sc.shards[i].lru) = 2
    /\ Len(recency) = 2

\* C18: a Set, Get or Delete of key k changes only the shard k routes to; every
\* other shard keeps its keys, values and order, and a key leaves the cache
\* without being deleted only when a new key is inserted into its own shard.
ShardIsolationStep ==
    LET k    == lastCall'.key
        home == getShard(sc, k) + 1
    IN  /\ \A i \in ShardIds : i # home => sc'.shards[i] = sc.shards[i]
        /\ \A e \in StoredKeys(sc) \ StoredKeys(sc') :
               \/ lastCall'.op = "delete" /\ e = k
               \/ /\ lastCall'.op = "set"
                  /\ k \notin StoredKeys(sc)
                  /\ k \in ShardKeys(sc'.shards[home])
                  /\ e # k
                  /\ getShard(sc, e) + 1 = home

ShardIsolation == [][ShardIsolationStep]_vars

\* a set has just evicted from one shard while another shard holds a key
ShardIsolationWitness ==
    /\ sc.shardCount > 1
    /\ lastCall.op = "set"
    /\ lastCall.gone # {}
    /\ \E i \in ShardIds :
           /\ i # getShard(sc, lastCall.key) + 1
           /\ ListLen(sc.shards[i].lru) > 0

\* C12: the shard index of a key depends on the key and the shard count alone:
\* it is the same before and after every call and in every cache built with the
\* same shard count; a key is held by at most one shard, the one it routes to,
\* and Set, Get and Delete of the key act on that shard.
RoutingState ==
    /\ \A k \in Keys :
           /\ getShard(sc, k) \in 0..(sc.shardCount - 1)
           /\ \A i \in ShardIds :
                  (k \in ShardKeys(sc.shards[i]) \/ k \in DOMAIN sc.shards[i].data)
                      => i = getShard(sc, k) + 1
           /\ \A cap \in 0..MaxOptArg :
                  LET other == NewShardedCache(<<WithShardCapacity(cap),
                                                 WithShardCount(sc.shardCount)>>)
                  IN  /\ other.shardCount = sc.shardCount
                      /\ getShard(other, k) = getShard(sc, k)

RoutingStep ==
    /\ \A k \in Keys : getShard(sc', k) = getShard(sc, k)
    /\ sc' # sc =>
           LET k == lastCall'.key
           IN  /\ sc'.shards[getShard(sc, k) + 1] # sc.shards[getShard(sc, k) + 1]
               /\ lastCall'.op = "set" => k \in ShardKeys(sc'.shards[getShard(sc', k) + 1])
               /\ lastCall'.op = "get" =>
                      lastCall'.err = ErrNone /\ k \in ShardKeys(sc.shards[getShard(sc, k) + 1])
               /\ lastCall'.op = "delete" => k \in ShardKeys(sc.shards[getShard(sc, k) + 1])

RoutingDeterminism == []RoutingState /\ [][RoutingStep]_vars

\* two keys are held by two different shards, and the key just set is found by
\* a get
RoutingWitness ==
    /\ sc.shardCount > 1
    /\ lastCall.op = "set"
    /\ \E k1, k2 \in StoredKeys(sc) : getShard(sc, k1) # getShard(sc, k2)
    /\ Seen(sc, lastCall.key).err = ErrNone

-----------------------------------------------------------------------------
(* Properties of construction, checked under SpecBuilt and SpecZeroCap *)

\* the argument of the last option of the given kind whose argument is positive
LastValid(opts, kind, default) ==
    LET I == { i \in 1..Len(opts) : opts[i].opt = kind /\ opts[i].arg > 0 }
    IN  IF I = {} THEN default
        ELSE opts[CHOOSE i \in I : \A j \in I : j <= i].arg

\* C13: for any list of options, a non-positive count or capacity is ignored:
\* the cache has shardCount >= 1 shards (the last positive count given, else 16),
\* exactly shardCount shards, each empty and of the last positive capacity
\* given (else 100), and every shard index computed lies in 0..shardCount-1.
ConstructionValid ==
    /\ sc.shardCount >= 1
    /\ sc.shardCount = LastValid(env.opts, "WithShardCount", DefaultShardCount)
    /\ sc.shardCapacity = LastValid(env.opts, "WithShardCapacity", DefaultShardCapacity)
    /\ DOMAIN sc.shards = 1..sc.shardCount
    /\ \A i \in 1..sc.shardCount : sc.shards[i] = newShard(sc.shardCapacity)
    /\ sc.shardCapacity >= 1
    /\ \A k \in Keys : getShard(sc, k) \in 0..(sc.shardCount - 1)
    /\ lastCall.op = "getShard" => lastCall.index \in 0..(sc.shardCount - 1)

\* a positive count was followed by a count that is not positive, and a key
\* was routed to the last shard of two
ConstructionWitness ==
    /\ Len(env.opts) = 2
    /\ env.opts[1] = WithShardCount(2)
    /\ env.opts[2].opt = "WithShardCount" /\ env.opts[2].arg <= 0
    /\ lastCall.op = "getShard"
    /\ lastCall.index = sc.shardCount - 1

\* C14: a cache built with a per-shard capacity of 0 or less never evicts: no
\* set removes an entry and every key set stays retrievable.
UnboundedNeverEvicts ==
    (\E i \in 1..Len(env.opts) :
        env.opts[i].opt = "WithShardCapacity" /\ env.opts[i].arg <= 0)
    => /\ lastCall.gone = {}
       /\ \A n \in 1..env.freshKeys :
              lastCall.key = KeyName(n) =>
                  \A m \in 1..n : Seen(sc, KeyName(m)).err = ErrNone

-----------------------------------------------------------------------------
(* Further properties of the server, checked under SpecServer *)

\* C15: the number of workers is positive and stays what it was at startup: the
\* configured size if that is positive, the default 10 otherwise, so that the
\* channel always has a consumer.
WorkerPoolPositive ==
    /\ Cardinality(DOMAIN workers) >= 1
    /\ flags.workerCount > 0 => Cardinality(DOMAIN workers) = flags.workerCount
    /\ flags.workerCount <= 0 => Cardinality(DOMAIN workers) = DefaultWorkerCount

\* the line is an AUTH command that carries the configured password
IsCorrectAuth(line) ==
    LET parts == Fields(line)
    IN  /\ Len(parts) >= 2
        /\ ToUpper(parts[1]) = CmdAUTH
        /\ parts[2] = flags.authPassword

\* the line is an AUTH command without the configured password
IsFailedAuth(line) ==
    LET parts == Fields(line)
    IN  /\ Len(parts) >= 1
        /\ ToUpper(parts[1]) = CmdAUTH
        /\ ~IsCorrectAuth(line)

AuthRequired == "ERROR: Authentication required. Please use AUTH <password>"

\* C16: with authentication enabled a connection starts unauthenticated and
\* becomes authenticated only by an AUTH with the correct password; until then
\* no command of it reaches the cache: any other command is answered with an
\* error and leaves the cache unchanged, and an AUTH with a missing or wrong
\* password closes the connection, which is never marked authenticated.
AuthGateStep ==
    flags.authEnabled =>
      /\ \A w \in DOMAIN workers :
            /\ (workers[w].pc = "recv" /\ workers'[w].pc = "handle")
                   => ~workers'[w].authenticated
            /\ (workers[w].pc = "handle" /\ ~workers[w].authenticated) =>
                  LET c == workers[w].conn
                  IN  /\ \/ workers'[w] = workers[w]
                         \/ /\ workers'[w] = [workers[w] EXCEPT !.authenticated = TRUE]
                            /\ lastEvent' = Reply(c, "OK")
                            /\ cacheInstance' = cacheInstance
                            /\ \E line \in ClientLines :
                                   IsCorrectAuth(line) /\ HandleLine(w, line)
                         \/ /\ workers'[w] = IdleWorker
                            /\ closes'[c] = closes[c] + 1
                            /\ lastEvent' = Exit(c, lastEvent'.msg)
                            /\ cacheInstance' = cacheInstance
                      /\ (lastEvent' # lastEvent /\ lastEvent'.conn = c /\ workers'[w] = workers[w])
                             => lastEvent' = Reply(c, AuthRequired)
                      /\ \A line \in ClientLines :
                             HandleLine(w, line) =>
                                 /\ cacheInstance' = cacheInstance
                                 /\ IsFailedAuth(line) =>
                                        /\ workers'[w] = IdleWorker
                                        /\ closes'[c] = closes[c] + 1
                                 /\ (Fields(line) # << >> /\ ~IsFailedAuth(line)
                                         /\ ~IsCorrectAuth(line)) =>
                                        /\ workers'[w] = workers[w]
                                        /\ lastEvent' = Reply(c, AuthRequired)
      /\ (cacheInstance' # cacheInstance \/ lastEvent'.kind = "VALUE") =>
            \E w \in DOMAIN workers :
                /\ workers[w].pc = "handle"
                /\ workers[w].conn = lastEvent'.conn
                /\ workers[w].authenticated

AuthGate == [][AuthGateStep]_vars

\* with authentication enabled: a connection was just closed for a failed AUTH
\* while another, authenticated, has stored a key
AuthGateWitness ==
    /\ flags.authEnabled
    /\ lastEvent.kind = "EXIT" /\ lastEvent.msg = "auth"
    /\ cacheInstance # EmptyMap
    /\ \E w \in DOMAIN workers : workers[w].pc = "handle" /\ workers[w].authenticated

-----------------------------------------------------------------------------
(* Properties of the concurrent callers, checked under SpecConcurrent *)

\* caller c is between its Lock and its Unlock on shard i
Holds(c, i) == callers[c].pc \in {"read", "write", "unlock"} /\ callers[c].shard = i

\* caller c completes the writes of its call in this step
Commits(c) == callers[c].pc = "write" /\ callers'[c].pc = "unlock"

AtomicState ==
    /\ \A i \in ShardIds :
           /\ Cardinality({ c \in CallerIds : Holds(c, i) }) <= 1
           /\ \A c \in CallerIds : Holds(c, i) <=> sc.shards[i].mu = c
    /\ \A c \in CallerIds :
           callers[c].pc = "write" => callers[c].local = Local(sc.shards[callers[c].shard])

AtomicStep ==
    /\ \A c \in CallerIds :
           Commits(c) =>
               LET me == callers[c]
               IN  /\ me.op = "set" => sc' = ShardedSet(sc, me.key, me.value)
                   /\ me.op = "get" =>
                          LET r == ShardedGet(sc, me.key)
                          IN  sc' = r.cache /\ callers'[c].ret = Ret(r.value, r.err)
                   /\ me.op = "delete" => sc' = ShardedDelete(sc, me.key)
    /\ (\A c \in CallerIds : ~Commits(c)) =>
           \A i \in ShardIds : Local(sc'.shards[i]) = Local(sc.shards[i])

\* C11: calls of set, get and delete on one shard exclude each other: at most
\* one caller is between Lock and Unlock of a shard, what it read is still the
\* shard when it writes, and the shards change only when a call completes its
\* writes, to what that call alone makes of the cache as it then is (which is
\* also what it returns); so the shards and the returned values are those of
\* the calls run one at a time in the order of these steps.
ShardAtomicity == []AtomicState /\ [][AtomicStep]_vars

\* a get has found its key while the other caller waits for the same shard
ShardAtomicityWitness ==
    \E c, d \in CallerIds :
        /\ c # d
        /\ callers[c].pc = "unlock" /\ callers[c].op = "get"
        /\ callers[c].ret.err = ErrNone
        /\ callers[d].pc = "lock" /\ callers[d].shard = callers[c].shard

LockScopeState ==
    /\ \A c \in CallerIds :
           /\ Cardinality({ i \in ShardIds : sc.shards[i].mu = c }) <= 1
           /\ (/\ callers[c].pc = "lock"
               /\ \A d \in CallerIds \ {c} : ~Holds(d, callers[c].shard))
                  => ENABLED Lock(c)
    /\ (\E c \in CallerIds : callers[c].pc # "idle") =>
           \E c \in CallerIds : ENABLED (Lock(c) \/ Read(c) \/ Write(c) \/ Unlock(c))

\* C19: a caller holds at most one shard mutex, a call waits only for the
\* mutex of its own shard (never for one held for another shard), some started
\* call can always take a step, and every started call completes and leaves
\* its mutex unlocked.
LockScope ==
    /\ []LockScopeState
    /\ \A c \in CallerIds :
           /\ (callers[c].pc # "idle") ~> (callers[c].pc = "idle")
           /\ \A i \in 1..2 : (sc.shards[i].mu = c) ~> (sc.shards[i].mu # c)

\* the two callers hold the mutexes of the two shards at the same time
LockScopeWitness ==
    \E c, d \in CallerIds :
        /\ Holds(c, 1) /\ sc.shards[1].mu = c
        /\ Holds(d, 2) /\ sc.shards[2].mu = d

-----------------------------------------------------------------------------
(* Properties of the dispatch, checked under SpecDispatch *)

\* every connection in service ends: no worker stays in handleConnection forever
ConnsEnd ==
    \A w \in 1..MaxWorkers :
        []<>(w \in DOMAIN workers => workers[w].pc # "handle")

AllAcceptedClosed == \A c \in 1..accepted : closes[c] > 0

\* a worker leaves its connection only when the connection has ended, a
\* connection is closed only by the worker serving it, and while every worker
\* is serving a connection nothing leaves the channel
DispatchStep ==
    /\ \A w \in DOMAIN workers :
           (workers[w].pc = "handle" /\ workers'[w] # workers[w]) =>
               /\ workers'[w].pc # "handle"
               /\ closes'[workers[w].conn] = closes[workers[w].conn] + 1
               /\ lastEvent' = Exit(workers[w].conn, lastEvent'.msg)
    /\ \A c \in ConnIds :
           closes'[c] # closes[c] => c \in InService /\ Handlers(c) # {}
    /\ (\A w \in DOMAIN workers : workers[w].pc = "handle") =>
           /\ Len(connChan') >= Len(connChan)
           /\ SubSeq(connChan', 1, Len(connChan)) = connChan

\* C20: with one worker or more and fair scheduling, if every connection in
\* service eventually ends, then every accepted connection is eventually closed
\* (after being in service) and a submit that waits for room in the channel
\* eventually completes; and a connection that does not end keeps its worker,
\* so that while all workers are kept nothing queued is served.
DispatchLiveness ==
    /\ ConnsEnd => /\ []<>AllAcceptedClosed
                   /\ (acceptor.pc = "send") ~> (acceptor.pc = "accept")
    /\ [][DispatchStep]_vars

\* the channel is full and the acceptor waits to submit, just after a worker
\* has closed the connection it served
DispatchWitness ==
    /\ Len(connChan) = QueueCapacity
    /\ acceptor.pc = "send"
    /\ lastEvent.kind = "EXIT"
    /\ \E c \in 1..accepted : closes[c] > 0

=============================================================================
